---- MODULE Spec2Model ----
(***************************************************************************)
(* Model of gemini-2/live_api_ui.py: the GeminiHandler audio relay adapter *)
(* (two asyncio queues, a stop flag, a lazily created generator task that  *)
(* drives one remote live session) on a single cooperative event loop.     *)
(* One action is one run of a coroutine between two suspension points.     *)
(***************************************************************************)
EXTENDS Integers, Sequences, FiniteSets, Bags, TLC

(* ------------------------------ bounds --------------------------------- *)
\* handlers in existence: the one built at line 136 plus its copies
MaxHandlers == 2
\* receive() calls over all handlers
MaxFrames == 2
\* response chunks delivered by the remote service over all sessions
MaxChunks == 2
\* emit() calls over all handlers
MaxEmits == 2

(* --------------------------- program constants ------------------------- *)
DefaultOutputSampleRate == 24000
DefaultOutputFrameSize == 480
InputSampleRate == 16000

(* ------------------------------ data ----------------------------------- *)
\* A numpy array: its shape and its int16 samples in row-major order.
Arr(shape, data) == [shape |-> shape, data |-> data]

DefaultExpectedLayout == "mono"

\* webrtc.stream(GeminiHandler(), ..., concurrency_limit=2): the handler
\* given to the framework and the number of connections served at a time.
Template == 1
ConcurrencyLimit == 2

\* Frames (sample rate, sample buffer) the capture side may submit.
Frames ==
    {<<16000, Arr(<<1, 2>>, <<258, 7>>)>>,
     <<48000, Arr(<<1>>, <<-1>>)>>}

\* Response chunks the remote service may deliver: data is None
\* (has_data FALSE), empty, an odd byte, or a sample and an odd byte.
Response(has_data, data) == [has_data |-> has_data, data |-> data]

Responses ==
    {Response(FALSE, <<>>), Response(TRUE, <<>>), Response(TRUE, <<5>>),
     Response(TRUE, <<255, 255, 4>>)}

\* Credentials the UI may pass as the second input (api_key textbox).
Keys == {"k1"}

(* ------------------------- pure functions ------------------------------ *)
RECURSIVE FilterNotOne(_)
FilterNotOne(s) ==
    IF s = <<>> THEN <<>>
    ELSE IF Head(s) = 1 THEN FilterNotOne(Tail(s))
    ELSE <<Head(s)>> \o FilterNotOne(Tail(s))

\* numpy.ndarray.squeeze(): drops the axes of length one, keeps the data.
Squeeze(a) == Arr(FilterNotOne(a.shape), a.data)

\* numpy.ndarray.tobytes() of an int16 array: two bytes per sample,
\* little-endian two's complement.
RECURSIVE SamplesToBytes(_)
SamplesToBytes(d) ==
    IF d = <<>> THEN <<>>
    ELSE LET u == IF Head(d) < 0 THEN Head(d) + 65536 ELSE Head(d)
         IN <<u % 256, u \div 256>> \o SamplesToBytes(Tail(d))

ToBytes(a) == SamplesToBytes(a.data)

\* base64.b64encode(...).decode("UTF-8"): the text as the sequence of the
\* alphabet indices 0..63 of its characters, 64 standing for the pad "=".
RECURSIVE B64Encode(_)
B64Encode(b) ==
    IF Len(b) = 0 THEN <<>>
    ELSE IF Len(b) = 1 THEN
        <<b[1] \div 4, (b[1] % 4) * 16, 64, 64>>
    ELSE IF Len(b) = 2 THEN
        <<b[1] \div 4, (b[1] % 4) * 16 + (b[2] \div 16), (b[2] % 16) * 4, 64>>
    ELSE
        <<b[1] \div 4, (b[1] % 4) * 16 + (b[2] \div 16),
          (b[2] % 16) * 4 + (b[3] \div 64), b[3] % 64>>
        \o B64Encode(SubSeq(b, 4, Len(b)))

\* The message receive() builds for a frame (lines 85-87).
AudioMessage(frame) == B64Encode(ToBytes(Squeeze(frame[2])))

\* The messages of the frames that may be submitted, computed once.
MessageOf == [f \in Frames |-> AudioMessage(f)]

\* numpy.frombuffer(bytes, dtype=int16).reshape(1, -1)
RECURSIVE BytesToSamples(_)
BytesToSamples(b) ==
    IF Len(b) < 2 THEN <<>>
    ELSE LET u == b[1] + 256 * b[2]
         IN <<IF u >= 32768 THEN u - 65536 ELSE u>>
            \o BytesToSamples(SubSeq(b, 3, Len(b)))

FromBuffer16(b) == Arr(<<1, Len(b) \div 2>>, BytesToSamples(b))

\* Variant of Aggregate: one array per complete sample.
AggregateSplit(leftover, chunk) ==
    LET current == leftover \o chunk
        n == (Len(current) \div 2) * 2
    IN <<[i \in 1..(n \div 2) |->
             FromBuffer16(SubSeq(current, 2 * i - 1, 2 * i))],
         SubSeq(current, n + 1, Len(current))>>

\* One iteration of async_aggregate_bytes_to_16bit: the bytes left over
\* from the previous chunks are prepended, the complete 16-bit samples are
\* yielded as one array (none if there is no complete sample), the odd byte
\* is kept.  Result: <<arrays yielded, new leftover>>.
Aggregate(leftover, chunk) ==
    LET current == leftover \o chunk
        n == (Len(current) \div 2) * 2
        to_process == SubSeq(current, 1, n)
    IN <<IF to_process # <<>> THEN <<FromBuffer16(to_process)>> ELSE <<>>,
         SubSeq(current, n + 1, Len(current))>>

\* Variant of ConnectYield: a response of a single byte is skipped as well.
ConnectYieldSkipShort(audio) ==
    IF audio.has_data /\ Len(audio.data) > 1 THEN <<audio.data>> ELSE <<>>

\* connect() relays the data of a response only when it is truthy, that
\* is neither None nor empty (lines 81-82).
ConnectYield(audio) ==
    IF audio.has_data /\ audio.data # <<>> THEN <<audio.data>> ELSE <<>>

\* Variant of Put: the item goes to the head of the queue.
PutFront(q, x) == <<x>> \o q

\* Variant of GetItem: the most recent item is taken.
GetItemLast(q) == q[Len(q)]

\* asyncio.Queue.put_nowait / get_nowait on an unbounded FIFO queue.
Put(q, x) == Append(q, x)
GetItem(q) == Head(q)
GetRest(q) == Tail(q)

\* generator()'s loop: each array the aggregation yields is put on the
\* output queue (lines 91-94).
RECURSIVE PutAll(_, _)
PutAll(q, xs) == IF xs = <<>> THEN q ELSE PutAll(Put(q, Head(xs)), Tail(xs))

\* Variant of EmitResult: the array is tagged with the input sample rate.
EmitResultInputRate(c, array) == <<c.input_sample_rate, array>>

\* The pair emit() returns for an array taken off the output queue.
EmitResult(c, array) == <<c.output_sample_rate, array>>

(* ------------------------------ state ---------------------------------- *)
VARIABLES
    handlers,      \* the GeminiHandler instances constructed so far
    conf,          \* per handler: expected_layout, output_sample_rate, ...
    input_queue,   \* per handler: self.input_queue
    output_queue,  \* per handler: self.output_queue
    quit,          \* per handler: self.quit (the stop flag)
    args_set,      \* per handler: self.args_set (base class event)
    latest_args,   \* per handler: self.latest_args (base class)
    calls,         \* per handler: how many emit() calls are suspended where
    tasks,         \* per handler: the bag of generator() tasks emit() created
    received,      \* history: frames passed to receive(), in call order
    yielded,       \* history: messages stream() yielded to the session
    chunks,        \* history: number of response chunks delivered, the last one
    placed,        \* history: arrays generator() put on the output queue
    emitted        \* history: pairs returned by emit(), in return order

vars == <<handlers, conf, input_queue, output_queue, quit, args_set,
          latest_args, calls, tasks, received, yielded, chunks, placed,
          emitted>>

\* No response chunk delivered yet to a handler.
NoChunks == [n |-> 0, last |-> Response(FALSE, <<>>), after_quit |-> FALSE]

\* No emit() call in progress on a handler.
NoCalls == [wait_for_args |-> 0, get |-> 0]

\* GeminiHandler.__init__: the fields of a freshly constructed handler.
NewHandler(layout, rate, size) ==
    [conf |-> [expected_layout |-> layout, output_sample_rate |-> rate,
               output_frame_size |-> size,
               input_sample_rate |-> InputSampleRate],
     input_queue |-> <<>>,
     output_queue |-> <<>>,
     quit |-> FALSE]

\* Adds handler n, built as the record fresh, to the state.
Install(n, fresh) ==
    /\ handlers' = handlers \cup {n}
    /\ conf' = (n :> fresh.conf) @@ conf
    /\ input_queue' = (n :> fresh.input_queue) @@ input_queue
    /\ output_queue' = (n :> fresh.output_queue) @@ output_queue
    /\ quit' = (n :> fresh.quit) @@ quit
    /\ args_set' = (n :> FALSE) @@ args_set
    /\ latest_args' = (n :> <<>>) @@ latest_args
    /\ calls' = (n :> NoCalls) @@ calls
    /\ tasks' = (n :> EmptyBag) @@ tasks
    /\ received' = (n :> <<>>) @@ received
    /\ yielded' = (n :> <<>>) @@ yielded
    /\ chunks' = (n :> NoChunks) @@ chunks
    /\ placed' = (n :> <<>>) @@ placed
    /\ emitted' = (n :> <<>>) @@ emitted

\* The handler passed to webrtc.stream (line 136): GeminiHandler() with the
\* default arguments of line 47.
Init ==
        LET fresh == NewHandler(DefaultExpectedLayout,
                                DefaultOutputSampleRate,
                                DefaultOutputFrameSize)
        IN /\ handlers = {1}
           /\ conf = (1 :> fresh.conf)
           /\ input_queue = (1 :> fresh.input_queue)
           /\ output_queue = (1 :> fresh.output_queue)
           /\ quit = (1 :> fresh.quit)
           /\ args_set = (1 :> FALSE)
           /\ latest_args = (1 :> <<>>)
           /\ calls = (1 :> NoCalls)
           /\ tasks = (1 :> EmptyBag)
           /\ received = (1 :> <<>>)
           /\ yielded = (1 :> <<>>)
           /\ chunks = (1 :> NoChunks)
           /\ placed = (1 :> <<>>)
           /\ emitted = (1 :> <<>>)

RECURSIVE SumLen(_, _)
SumLen(f, S) ==
    IF S = {} THEN 0
    ELSE LET x == CHOOSE y \in S : TRUE
         IN Len(f[x]) + SumLen(f, S \ {x})

\* emit() calls made so far over all handlers: those still suspended and
\* those that have returned.
RECURSIVE SumCalls(_)
SumCalls(S) ==
    IF S = {} THEN 0
    ELSE LET x == CHOOSE y \in S : TRUE
         IN calls[x].wait_for_args + calls[x].get + SumCalls(S \ {x})

EmitCalls == SumCalls(handlers) + SumLen(emitted, handlers)

\* Response chunks delivered so far over all handlers.
RECURSIVE SumChunks(_)
SumChunks(S) ==
    IF S = {} THEN 0
    ELSE LET x == CHOOSE y \in S : TRUE
         IN chunks[x].n + SumChunks(S \ {x})

\* A generator() task as create_task leaves it: scheduled, not yet run.
\* emit() drops the task object, so the tasks of a handler have no name:
\* they are kept as a bag of their states.
NewTask == [state |-> "created", stream |-> "none", leftover |-> <<>>,
            key |-> "none"]

\* The tasks of handler h, and those in a given state.
TasksOf(h) == BagToSet(tasks[h])
TasksIn(h, st) == {r \in TasksOf(h) : r.state = st}

\* The bag b with one task in state r replaced by one in state r2.
Replace(b, r, r2) == (b (-) SetToBag({r})) (+) SetToBag({r2})

\* The state of a task that is over: its coroutines and their locals are
\* gone, only the outcome stays.
Over(r, outcome) ==
    [r EXCEPT !.state = outcome, !.stream = "closed", !.leftover = <<>>]

(* ------------------------------ actions -------------------------------- *)
\* Variant of CopyOf: the new handler is given the queues and the flag of
\* src instead of its own.
CopyOfShared(src) ==
    [conf |-> conf[src],
     input_queue |-> input_queue[src],
     output_queue |-> output_queue[src],
     quit |-> quit[src]]

\* The handler copy() returns: a GeminiHandler constructed with the layout,
\* rate and frame size of src (lines 61-65).
CopyOf(src) ==
    NewHandler(conf[src].expected_layout,
               conf[src].output_sample_rate,
               conf[src].output_frame_size)

\* copy(): a new handler with the layout, rate and frame size of src.
Copy(src) ==
    /\ src \in handlers
    /\ Cardinality(handlers) < MaxHandlers
    /\ Install(Cardinality(handlers) + 1, CopyOf(src))

\* The framework accepts a connection, at most concurrency_limit at a time
\* (line 140), and serves it with a copy() of a handler.
Serve(src) ==
    /\ src \in handlers
    /\ Cardinality(handlers \ {Template}) < ConcurrencyLimit
    /\ Install(Cardinality(handlers) + 1, CopyOf(src))

\* Variant of Receive: the input queue holds one message at most, and
\* put_nowait on a full queue raises, the frame being lost.
ReceiveBounded(h, frame) ==
    /\ h \in handlers
    /\ SumLen(received, handlers) < MaxFrames
    /\ input_queue' =
           [input_queue EXCEPT
               ![h] = IF Len(@) >= 1 THEN @ ELSE Put(@, MessageOf[frame])]
    /\ received' = [received EXCEPT ![h] = Append(@, frame)]
    /\ UNCHANGED <<handlers, conf, output_queue, quit, args_set,
                   latest_args, calls, tasks, yielded, chunks,
                   placed, emitted>>

\* receive(frame): encode the frame and put it on the input queue.
Receive(h, frame) ==
    /\ h \in handlers
    /\ SumLen(received, handlers) < MaxFrames
    /\ input_queue' =
           [input_queue EXCEPT ![h] = Put(@, MessageOf[frame])]
    /\ received' = [received EXCEPT ![h] = Append(@, frame)]
    /\ UNCHANGED <<handlers, conf, output_queue, quit, args_set,
                   latest_args, calls, tasks, yielded, chunks,
                   placed, emitted>>

\* The framework hands the handler the stream's inputs [webrtc, api_key]
\* (lines 137, 97-98): latest_args is stored and args_set is set.
SetArgs(h, key) ==
    /\ h \in handlers
    /\ ~args_set[h]
    /\ args_set' = [args_set EXCEPT ![h] = TRUE]
    /\ latest_args' = [latest_args EXCEPT ![h] = <<"__webrtc_value__", key>>]
    /\ UNCHANGED <<handlers, conf, input_queue, output_queue, quit, calls,
                   tasks, received, yielded, chunks, placed,
                   emitted>>

\* Variant of Shutdown: the flag is set and the output queue is discarded.
ShutdownDiscard(h) ==
    /\ h \in handlers
    /\ ~quit[h]
    /\ quit' = [quit EXCEPT ![h] = TRUE]
    /\ output_queue' = [output_queue EXCEPT ![h] = <<>>]
    /\ UNCHANGED <<handlers, conf, input_queue, args_set, latest_args,
                   calls, tasks, received, yielded, chunks, placed,
                   emitted>>

\* shutdown(): set the stop flag.
Shutdown(h) ==
    /\ h \in handlers
    /\ ~quit[h]
    /\ quit' = [quit EXCEPT ![h] = TRUE]
    /\ UNCHANGED <<handlers, conf, input_queue, output_queue, args_set,
                   latest_args, calls, tasks, received, yielded,
                   chunks, placed, emitted>>

\* Variant of EmitTake: on an empty output queue the call does not wait
\* and returns an empty array.
EmitTakeNoWait(h, from) ==
    LET left == IF from = "none" THEN calls[h]
                ELSE [calls[h] EXCEPT ![from] = @ - 1]
        array == IF output_queue[h] = <<>> THEN Arr(<<1, 0>>, <<>>)
                 ELSE GetItem(output_queue[h])
    IN /\ calls' = [calls EXCEPT ![h] = left]
       /\ output_queue' = [output_queue EXCEPT
              ![h] = IF @ = <<>> THEN @ ELSE GetRest(@)]
       /\ emitted' = [emitted EXCEPT
              ![h] = Append(@, EmitResult(conf[h], array))]

\* Lines 101-102 of emit(), for a call that was counted in calls[h] under
\* from ("none" for a call that has not been suspended): take an array off
\* the output queue and return it with the output sample rate, or suspend
\* in get() on an empty queue.
EmitTake(h, from) ==
    LET left == IF from = "none" THEN calls[h]
                ELSE [calls[h] EXCEPT ![from] = @ - 1]
    IN IF output_queue[h] = <<>>
       THEN /\ calls' = [calls EXCEPT ![h] = [left EXCEPT !.get = @ + 1]]
            /\ UNCHANGED <<output_queue, emitted>>
       ELSE /\ calls' = [calls EXCEPT ![h] = left]
            /\ output_queue' = [output_queue EXCEPT ![h] = GetRest(@)]
            /\ emitted' = [emitted EXCEPT
                   ![h] = Append(@, EmitResult(conf[h],
                                               GetItem(output_queue[h])))]

\* emit() is called: with the arguments not yet set it suspends in
\* wait_for_args (line 98), otherwise it goes straight to line 101.
EmitCall(h) ==
    /\ h \in handlers
    /\ EmitCalls < MaxEmits
    /\ IF ~args_set[h]
       THEN /\ calls' = [calls EXCEPT ![h].wait_for_args = @ + 1]
            /\ UNCHANGED <<output_queue, emitted>>
       ELSE EmitTake(h, "none")
    /\ UNCHANGED <<handlers, conf, input_queue, quit, args_set, latest_args,
                   tasks, received, yielded, chunks, placed>>

\* Variant of EmitResume: the call does not wait for the arguments before
\* it creates the generator task.
EmitResumeNoWait(h) ==
    /\ h \in handlers
    /\ calls[h].wait_for_args > 0
    /\ tasks' = [tasks EXCEPT ![h] = @ (+) SetToBag({NewTask})]
    /\ EmitTake(h, "wait_for_args")
    /\ UNCHANGED <<handlers, conf, input_queue, quit, args_set, latest_args,
                   received, yielded, chunks, placed>>

\* An emit() suspended in wait_for_args resumes once args_set is set:
\* it creates the generator task (line 99) and goes on to line 101.
EmitResume(h) ==
    /\ h \in handlers
    /\ calls[h].wait_for_args > 0
    /\ args_set[h]
    /\ tasks' = [tasks EXCEPT ![h] = @ (+) SetToBag({NewTask})]
    /\ EmitTake(h, "wait_for_args")
    /\ UNCHANGED <<handlers, conf, input_queue, quit, args_set, latest_args,
                   received, yielded, chunks, placed>>

\* An emit() suspended in output_queue.get() resumes when an array is there.
EmitGet(h) ==
    /\ h \in handlers
    /\ calls[h].get > 0
    /\ output_queue[h] # <<>>
    /\ EmitTake(h, "get")
    /\ UNCHANGED <<handlers, conf, input_queue, quit, args_set, latest_args,
                   tasks, received, yielded, chunks, placed>>

\* A generator task runs for the first time: generator() calls
\* connect(self.latest_args[1]), which opens the session; start_stream
\* holds stream(), not yet advanced.
GeneratorStart(h) ==
    /\ h \in handlers
    /\ \E r \in TasksIn(h, "created") :
           tasks' = [tasks EXCEPT ![h] =
               Replace(@, r, [r EXCEPT !.state = "active", !.stream = "head",
                                       !.key = latest_args[h][2]])]
    /\ UNCHANGED <<handlers, conf, input_queue, output_queue, quit,
                   args_set, latest_args, calls, received, yielded,
                   chunks, placed, emitted>>

\* Variant of StreamNext: the loop head does not test the stop flag.
StreamNextNoFlag(h) ==
    /\ h \in handlers
    /\ \E r \in TasksIn(h, "active") :
        /\ r.stream = "head"
        /\ IF input_queue[h] = <<>>
           THEN /\ tasks' = [tasks EXCEPT
                       ![h] = Replace(@, r, [r EXCEPT !.stream = "wait"])]
                /\ UNCHANGED <<input_queue, yielded>>
           ELSE /\ yielded' = [yielded EXCEPT
                       ![h] = Append(@, GetItem(input_queue[h]))]
                /\ input_queue' = [input_queue EXCEPT ![h] = GetRest(@)]
                /\ UNCHANGED tasks
    /\ UNCHANGED <<handlers, conf, output_queue, quit, args_set,
                   latest_args, calls, received, chunks, placed, emitted>>

\* The session asks stream() for its next item: the loop head tests the
\* stop flag (line 68), then get() returns at once on a non-empty queue
\* and the item is yielded, or suspends on an empty one (line 69).
StreamNext(h) ==
    /\ h \in handlers
    /\ \E r \in TasksIn(h, "active") :
        /\ r.stream = "head"
        /\ IF quit[h]
           THEN /\ tasks' = [tasks EXCEPT
                       ![h] = Replace(@, r, [r EXCEPT !.stream = "done"])]
                /\ UNCHANGED <<input_queue, yielded>>
           ELSE IF input_queue[h] = <<>>
           THEN /\ tasks' = [tasks EXCEPT
                       ![h] = Replace(@, r, [r EXCEPT !.stream = "wait"])]
                /\ UNCHANGED <<input_queue, yielded>>
           ELSE /\ yielded' = [yielded EXCEPT
                       ![h] = Append(@, GetItem(input_queue[h]))]
                /\ input_queue' = [input_queue EXCEPT ![h] = GetRest(@)]
                /\ UNCHANGED tasks
    /\ UNCHANGED <<handlers, conf, output_queue, quit, args_set,
                   latest_args, calls, received, chunks, placed,
                   emitted>>

\* Variant of StreamWake: the suspended get() is also woken by the stop
\* flag, and stream() then ends without an item.
StreamWakeOnQuit(h) ==
    /\ h \in handlers
    /\ \E r \in TasksIn(h, "active") :
        /\ r.stream = "wait"
        /\ IF quit[h]
           THEN /\ tasks' = [tasks EXCEPT
                       ![h] = Replace(@, r, [r EXCEPT !.stream = "done"])]
                /\ UNCHANGED <<input_queue, yielded>>
           ELSE /\ input_queue[h] # <<>>
                /\ tasks' = [tasks EXCEPT
                       ![h] = Replace(@, r, [r EXCEPT !.stream = "head"])]
                /\ yielded' = [yielded EXCEPT
                       ![h] = Append(@, GetItem(input_queue[h]))]
                /\ input_queue' = [input_queue EXCEPT ![h] = GetRest(@)]
    /\ UNCHANGED <<handlers, conf, output_queue, quit, args_set,
                   latest_args, calls, received, chunks, placed, emitted>>

\* A stream() suspended in input_queue.get() resumes when an item is there
\* and yields it (lines 69-70); the stop flag is not looked at.
StreamWake(h) ==
    /\ h \in handlers
    /\ input_queue[h] # <<>>
    /\ \E r \in TasksIn(h, "active") :
        /\ r.stream = "wait"
        /\ tasks' = [tasks EXCEPT
               ![h] = Replace(@, r, [r EXCEPT !.stream = "head"])]
    /\ yielded' = [yielded EXCEPT ![h] = Append(@, GetItem(input_queue[h]))]
    /\ input_queue' = [input_queue EXCEPT ![h] = GetRest(@)]
    /\ UNCHANGED <<handlers, conf, output_queue, quit, args_set,
                   latest_args, calls, received, chunks, placed,
                   emitted>>

\* The session delivers a response chunk: connect() relays its data if
\* there is any (lines 78-82), async_aggregate_bytes_to_16bit turns the
\* bytes into an array and generator() puts it on the output queue
\* (lines 91-94).
SessionChunk(h, audio) ==
    /\ h \in handlers
    /\ SumChunks(handlers) < MaxChunks
    /\ chunks' = [chunks EXCEPT
           ![h] = [n |-> @.n + 1, last |-> audio, after_quit |-> quit[h]]]
    /\ \E r \in TasksIn(h, "active") :
        LET relayed == ConnectYield(audio)
            agg == IF relayed = <<>> THEN <<<<>>, r.leftover>>
                   ELSE Aggregate(r.leftover, relayed[1])
        IN /\ tasks' = [tasks EXCEPT
                  ![h] = Replace(@, r, [r EXCEPT !.leftover = agg[2]])]
           /\ output_queue' = [output_queue EXCEPT ![h] = PutAll(@, agg[1])]
           /\ placed' = [placed EXCEPT ![h] = @ \o agg[1]]
    /\ UNCHANGED <<handlers, conf, input_queue, quit, args_set, latest_args,
                   calls, received, yielded, emitted>>

\* The session's response stream ends: connect() and generator() return,
\* the task completes, stream() is closed.
SessionEnd(h) ==
    /\ h \in handlers
    /\ \E r \in TasksIn(h, "active") :
           tasks' = [tasks EXCEPT ![h] = Replace(@, r, Over(r, "ended"))]
    /\ UNCHANGED <<handlers, conf, input_queue, output_queue, quit,
                   args_set, latest_args, calls, received, yielded,
                   chunks, placed, emitted>>

\* The session raises (connection refused, transport error): the exception
\* leaves connect() and generator() and ends the task created at line 99;
\* nothing in emit() awaits that task.
SessionFail(h) ==
    /\ h \in handlers
    /\ \E r \in TasksIn(h, "active") :
           tasks' = [tasks EXCEPT ![h] = Replace(@, r, Over(r, "failed"))]
    /\ UNCHANGED <<handlers, conf, input_queue, output_queue, quit,
                   args_set, latest_args, calls, received, yielded,
                   chunks, placed, emitted>>

Handlers == 1..MaxHandlers

\* One adapter instance: the operations of the handler and of its session.
Next ==
    \/ \E h \in Handlers, f \in Frames : Receive(h, f)
    \/ \E h \in Handlers, k \in Keys : SetArgs(h, k)
    \/ \E h \in Handlers : Shutdown(h)
    \/ \E h \in Handlers : EmitCall(h)
    \/ \E h \in Handlers : EmitResume(h)
    \/ \E h \in Handlers : EmitGet(h)
    \/ \E h \in Handlers : GeneratorStart(h)
    \/ \E h \in Handlers : StreamNext(h)
    \/ \E h \in Handlers : StreamWake(h)
    \/ \E h \in Handlers, a \in Responses : SessionChunk(h, a)
    \/ \E h \in Handlers : SessionEnd(h)
    \/ \E h \in Handlers : SessionFail(h)

Spec == Init /\ [][Next]_vars

\* Several clients: the framework serves each connection with a copy of
\* the handler given to webrtc.stream.
NextClients ==
    \/ \E h \in Handlers : Copy(h)
    \/ Next

SpecClients == Init /\ [][NextClients]_vars

\* The application as launched (lines 135-141): the handler given to
\* webrtc.stream is the template, every connection is served by a copy,
\* and only the copies receive, emit and hold sessions.  The frames,
\* chunks and emit() calls of all connections together stay one below the
\* bounds of a single adapter.
Clients == 2..(ConcurrencyLimit + 1)

NextServed ==
    \/ \E src \in 1..(ConcurrencyLimit + 1) : Serve(src)
    \/ \E h \in Clients, f \in Frames :
          SumLen(received, handlers) < MaxFrames - 1 /\ Receive(h, f)
    \/ \E h \in Clients, k \in Keys : SetArgs(h, k)
    \/ \E h \in Clients : Shutdown(h)
    \/ \E h \in Clients : EmitCalls < MaxEmits - 1 /\ EmitCall(h)
    \/ \E h \in Clients : EmitResume(h)
    \/ \E h \in Clients : EmitGet(h)
    \/ \E h \in Clients : GeneratorStart(h)
    \/ \E h \in Clients : StreamNext(h)
    \/ \E h \in Clients : StreamWake(h)
    \/ \E h \in Clients, a \in Responses :
          SumChunks(handlers) < MaxChunks - 1 /\ SessionChunk(h, a)
    \/ \E h \in Clients : SessionEnd(h)
    \/ \E h \in Clients : SessionFail(h)

SpecServed == Init /\ [][NextServed]_vars

(* --------------------------- claim helpers ----------------------------- *)
\* The messages receive() builds for a sequence of frames.
Msgs(frames) == [i \in 1..Len(frames) |-> MessageOf[frames[i]]]

IsPrefix(p, q) == Len(p) <= Len(q) /\ SubSeq(q, 1, Len(p)) = p

\* Number of tasks of handler h whose state is in the set sts.
RECURSIVE CountIn(_, _)
CountIn(b, R) ==
    IF R = {} THEN 0
    ELSE LET r == CHOOSE x \in R : TRUE
         IN CopiesIn(r, b) + CountIn(b, R \ {r})

NumTasks(h, sts) == CountIn(tasks[h], {r \in TasksOf(h) : r.state \in sts})

\* Number of tasks of handler h whose stream() is at position pos.
NumStreams(h, pos) == CountIn(tasks[h], {r \in TasksOf(h) : r.stream = pos})

(* ------------------------------- claims -------------------------------- *)
\* C1: while the stop flag of a handler is unset, the messages of the
\* frames passed to receive(), in call order, are exactly the messages
\* stream() has taken off the head of the input queue followed by the
\* messages on the queue: one message per frame, none dropped, duplicated
\* or reordered.
C1_ReceiveEnqueuesInOrder ==
    \A h \in handlers :
        ~quit[h] => Msgs(received[h]) = yielded[h] \o input_queue[h]

\* Two different frames were submitted with the flag unset and both of
\* their messages sit on the input queue.
C1_Witness ==
    \E h \in handlers :
        /\ ~quit[h]
        /\ Len(received[h]) = 2
        /\ received[h][1] # received[h][2]
        /\ input_queue[h] = Msgs(received[h])

\* C2 (as claimed): once the stop flag of a handler is set, a receive()
\* call adds nothing to its input queue and stream() hands no further
\* message to the session.
C2_NoFrameAcceptedAfterShutdown ==
    [][\A h \in handlers :
          quit[h] => /\ Len(input_queue'[h]) <= Len(input_queue[h])
                     /\ yielded'[h] = yielded[h]]_vars

\* C3 (as claimed): on every handler connect() is started at most once,
\* whatever the interleaving of the emit() calls.
C3_ConnectStartedAtMostOnce ==
    \A h \in handlers : NumTasks(h, {"active", "ended", "failed"}) <= 1

\* C4 (as claimed): a failure of the session reaches the caller of emit():
\* no emit() call is left suspended on the empty output queue of a handler
\* whose only generator task has failed.
C4_FailureReachesEmit ==
    \A h \in handlers :
        (NumTasks(h, {"failed"}) = 1 /\ BagCardinality(tasks[h]) = 1)
            => ~(calls[h].get > 0 /\ output_queue[h] = <<>>)

\* C5: the messages stream() has yielded to the session are a prefix of
\* the messages receive() placed on the input queue, in the same order.
C5_StreamYieldsInArrivalOrder ==
    \A h \in handlers : IsPrefix(yielded[h], Msgs(received[h]))

\* Two different messages have been handed to the session.
C5_Witness ==
    \E h \in handlers :
        /\ Len(yielded[h]) = 2
        /\ yielded[h][1] # yielded[h][2]

\* A step in which handler h received a response chunk, and that chunk.
ChunkStep(h) == chunks'[h].n = chunks[h].n + 1
LastChunk(h) == chunks'[h].last

\* The arrays placed for handler h in a step.
NewlyPlaced(h) == SubSeq(placed'[h], Len(placed[h]) + 1, Len(placed'[h]))

\* C6 (as claimed): the number of frames placed on the output queue equals
\* the number of response chunks received from the session.
C6_OneFramePerChunk ==
    \A h \in handlers : Len(placed[h]) = chunks[h].n

\* C6 (amended): frames are placed on the output queue only when a response
\* chunk is received, at most one per chunk and none for a chunk whose data
\* is missing or empty, and each is appended at the tail of the queue, so
\* the frames follow the order of the chunks.
C6_AtMostOneFramePerDataChunk ==
    [][\A h \in handlers :
          /\ placed'[h] # placed[h] => ChunkStep(h)
          /\ ChunkStep(h) =>
                /\ Len(NewlyPlaced(h)) <= 1
                /\ ConnectYield(LastChunk(h)) = <<>>
                       => NewlyPlaced(h) = <<>>
                /\ placed'[h] = placed[h] \o NewlyPlaced(h)
                /\ output_queue'[h] = output_queue[h] \o NewlyPlaced(h)]_vars

\* Two chunks were received, the first gave a frame and the second, which
\* carries no data, gave none.
C6_Witness ==
    \E h \in handlers :
        /\ chunks[h].n = 2
        /\ ConnectYield(chunks[h].last) = <<>>
        /\ Len(placed[h]) = 1

\* Number of samples of an array.
NumSamples(array) == Len(array.data)

C9_OneActiveSessionPerClient ==
    \A h \in handlers : NumTasks(h, {"active"}) <= 1

\* C10: shutdown() leaves the tasks and their stream() as they are; with
\* the flag set, a stream() suspended on the input queue leaves get() only
\* by taking the message at the head of a non-empty queue and yielding it
\* (or with the end of its session), and a stream() ends on the flag only
\* at the head of its loop.
C10_FlagCheckedAtLoopHead ==
    [][\A h \in handlers :
          /\ quit'[h] # quit[h] => tasks'[h] = tasks[h]
          /\ (quit[h] /\ NumStreams(h, "wait")' < NumStreams(h, "wait")) =>
                \/ /\ input_queue[h] # <<>>
                   /\ input_queue'[h] = Tail(input_queue[h])
                   /\ yielded'[h] = Append(yielded[h], Head(input_queue[h]))
                   /\ NumStreams(h, "head")' = NumStreams(h, "head") + 1
                \/ NumTasks(h, {"active"})' < NumTasks(h, {"active"})
          /\ NumStreams(h, "done")' > NumStreams(h, "done") =>
                /\ quit[h]
                /\ NumStreams(h, "head")' < NumStreams(h, "head")]_vars

\* The flag is set while a stream() is suspended on the empty input queue.
C10_Witness ==
    \E h \in handlers :
        /\ quit[h]
        /\ NumStreams(h, "wait") >= 1
        /\ input_queue[h] = <<>>

\* C11: with the stop flag set, a stream() yields only out of a get() it
\* was already suspended in (one message, after which it is at the loop
\* head), no stream() suspends in get() any more, and a stream() at the
\* loop head leaves it without yielding: each stream() yields at most one
\* further message and then ends, whatever is on the input queue.
C11_AtMostOneFrameAfterShutdown ==
    [][\A h \in handlers :
          quit[h] =>
              /\ NumStreams(h, "wait")' <= NumStreams(h, "wait")
              /\ yielded'[h] # yielded[h] =>
                    /\ Len(yielded'[h]) = Len(yielded[h]) + 1
                    /\ NumStreams(h, "wait")' = NumStreams(h, "wait") - 1
                    /\ NumStreams(h, "head")' = NumStreams(h, "head") + 1
              /\ NumStreams(h, "head")' < NumStreams(h, "head") =>
                    /\ yielded'[h] = yielded[h]
                    /\ input_queue'[h] = input_queue[h]
                    /\ NumStreams(h, "wait")' = NumStreams(h, "wait")]_vars

\* The flag is set, the stream() has ended after one message and a message
\* is left on the input queue.
C11_Witness ==
    \E h \in handlers :
        /\ quit[h]
        /\ NumStreams(h, "done") = 1
        /\ BagCardinality(tasks[h]) = 1
        /\ Len(yielded[h]) = 1
        /\ Len(input_queue[h]) = 1

\* The arrays of the pairs emit() returned on handler h.
EmittedArrays(h) == [i \in 1..Len(emitted[h]) |-> emitted[h][i][2]]

\* C12: the arrays emit() has returned followed by the arrays on the
\* output queue are the arrays generator() placed, in the order it placed
\* them (each returned once, in FIFO order), and an emit() call returns
\* only by taking the array at the head of a non-empty output queue.
C12_EmitDrainsInFifoOrder ==
    /\ [](\A h \in handlers :
             EmittedArrays(h) \o output_queue[h] = placed[h])
    /\ [][\A h \in handlers :
             emitted'[h] # emitted[h] =>
                 /\ output_queue[h] # <<>>
                 /\ EmittedArrays(h)' =
                        Append(EmittedArrays(h), Head(output_queue[h]))
                 /\ output_queue'[h] = Tail(output_queue[h])]_vars

\* Two different frames were placed and emit() has returned both.
C12_Witness ==
    \E h \in handlers :
        /\ Len(emitted[h]) = 2
        /\ emitted[h][1] # emitted[h][2]
        /\ output_queue[h] = <<>>

\* C13: receive() can be called on a handler in every state (any length
\* of the input queue, no task yet, tasks over; in the model as long as
\* frames remain to be submitted), and as long as no stream() has taken a
\* message the input queue holds the messages of all the frames received.
C13_ReceiveNeverBlocks ==
    \A h \in handlers :
        /\ \A f \in Frames :
               SumLen(received, handlers) < MaxFrames
                   => ENABLED Receive(h, f)
        /\ yielded[h] = <<>> => input_queue[h] = Msgs(received[h])

\* The session of the handler has ended with nothing taken from the input
\* queue, and two frames received since sit on the queue.
C13_Witness ==
    \E h \in handlers :
        /\ NumTasks(h, {"ended"}) = 1
        /\ BagCardinality(tasks[h]) = 1
        /\ yielded[h] = <<>>
        /\ Len(input_queue[h]) >= 2

\* C14: a handler has a generator task, or a frame returned by emit(),
\* only once its arguments are set, and every task that has started
\* connect() was given the credential of those arguments.
C14_NoSessionBeforeCredential ==
    \A h \in handlers :
        /\ (tasks[h] # EmptyBag \/ emitted[h] # <<>>) => args_set[h]
        /\ \A r \in TasksOf(h) :
               r.state # "created" =>
                   /\ r.key \in Keys
                   /\ r.key = latest_args[h][2]

\* The arguments are set, the session was opened with the credential and
\* emit() has returned a frame.
C14_Witness ==
    \E h \in handlers :
        /\ args_set[h]
        /\ \E r \in TasksIn(h, "active") : r.key = latest_args[h][2]
        /\ emitted[h] # <<>>

\* The bytes of the arrays of a sequence, in order.
RECURSIVE BytesOf(_)
BytesOf(arrays) ==
    IF arrays = <<>> THEN <<>>
    ELSE ToBytes(Head(arrays)) \o BytesOf(Tail(arrays))

\* C16: a response chunk whose data is missing or empty changes neither the
\* output queue nor the bytes kept by the generator; the bytes of a chunk
\* that carries data go, after the bytes kept from the earlier chunks, into
\* the arrays appended to the output queue and the bytes kept for the next
\* chunk, so the data is relayed in the order received.
C16_EmptyChunksSkippedDataInOrder ==
    [][\A h \in handlers :
          ChunkStep(h) =>
              LET c == LastChunk(h)
              IN IF ~c.has_data \/ c.data = <<>>
                 THEN /\ output_queue'[h] = output_queue[h]
                      /\ placed'[h] = placed[h]
                      /\ tasks'[h] = tasks[h]
                 ELSE /\ output_queue'[h] = output_queue[h] \o NewlyPlaced(h)
                      /\ placed'[h] = placed[h] \o NewlyPlaced(h)
                      /\ \E r \in TasksIn(h, "active") :
                           \E r2 \in TasksOf(h)' :
                             /\ tasks'[h] = Replace(tasks[h], r, r2)
                             /\ BytesOf(NewlyPlaced(h)) \o r2.leftover
                                    = r.leftover \o c.data]_vars

\* A chunk of one byte was followed by a chunk of three bytes: the byte
\* kept from the first was relayed before those of the second, as one
\* array of two samples.
C16_Witness ==
    \E h \in handlers :
        /\ chunks[h].n = 2
        /\ chunks[h].last = Response(TRUE, <<255, 255, 4>>)
        /\ Len(placed[h]) = 1
        /\ placed[h][1].data = <<-251, 1279>>

\* The queues and the stop flag of handler h, and all that belongs to h.
Shared(h) == <<input_queue[h], output_queue[h], quit[h]>>
Whole(h) ==
    <<conf[h], input_queue[h], output_queue[h], quit[h], args_set[h],
      latest_args[h], calls[h], tasks[h], received[h], yielded[h],
      chunks[h], placed[h], emitted[h]>>

\* C15: a handler that appears in a step has the layout, output sample
\* rate and output frame size of a handler that existed, empty queues and
\* an unset flag, and its creation changes nothing of the handlers that
\* existed; a step that changes anything of one handler (receive(), emit(),
\* shutdown(), or a step of its tasks) leaves the queues and the flag of
\* every other handler as they were.
C15_HandlersIsolated ==
    [][/\ \A n \in handlers' \ handlers :
             /\ \E src \in handlers :
                    /\ conf'[n].expected_layout = conf[src].expected_layout
                    /\ conf'[n].output_sample_rate
                           = conf[src].output_sample_rate
                    /\ conf'[n].output_frame_size
                           = conf[src].output_frame_size
             /\ input_queue'[n] = <<>>
             /\ output_queue'[n] = <<>>
             /\ quit'[n] = FALSE
             /\ \A h \in handlers : Whole(h)' = Whole(h)
       /\ \A h \in handlers :
             Whole(h)' # Whole(h) =>
                 \A g \in handlers \ {h} : Shared(g)' = Shared(g)]_vars

\* Two copies are served: one has received a frame and was shut down, the
\* other has returned a frame from emit(); the first still holds its
\* message, the second has empty queues and an unset flag, and the
\* template is as constructed.
C15_Witness ==
    \E h, g \in handlers \ {Template} :
        /\ received[h] # <<>> /\ quit[h] /\ input_queue[h] # <<>>
        /\ emitted[g] # <<>> /\ received[g] = <<>> /\ ~quit[g]
        /\ Shared(g) = <<<<>>, <<>>, FALSE>>
        /\ Shared(Template) = <<<<>>, <<>>, FALSE>>

====
